---------------------------- MODULE Spec2Model ----------------------------
(***************************************************************************)
(* A model of the SupportMyCamp scraper (src/scraper.py):                  *)
(*   - ScraperLock and main: the file lock and the run pipeline, for one   *)
(*     process (SpecRun, FairRun) and for two concurrent ones (SpecLock);  *)
(*   - make_request_with_retry and the callers' validation of its result   *)
(*     (SpecFetch);                                                        *)
(*   - fetch_clubs_with_params and fetch_all_clubs, against any responses  *)
(*     (SpecEnum, and FairEnum for termination), against a deterministic   *)
(*     endpoint (SpecOrder), against one that lists a club under two names *)
(*     (SpecRenamed) and against one whose items lack a key (SpecPartial); *)
(*   - main after the enumeration: fetch_all_club_stats, calculate_payouts *)
(*     and save_data, with their data (SpecCollect), and with any JSON     *)
(*     value for voucherCount (SpecRaw);                                   *)
(*   - single calls: the payout expression on any count and worth          *)
(*     (SpecPayout) and repeated calls of ScraperLock.release              *)
(*     (SpecRelease).                                                      *)
(* Each specification drives its own group of variables and leaves the     *)
(* other groups at their idle values.                                      *)
(***************************************************************************)
EXTENDS Integers, Sequences, FiniteSets, TLC

VARIABLES
    \* ---- ScraperLock / main
    now,        \* the wall clock, in seconds
    lock,       \* the lock file: exists, content (a pid), modification time
    pc,         \* per process: where main is
    acquired,   \* per process: ScraperLock.acquired
    outcome,    \* per process: how the with-block was left
    httpIssued, \* per process: has the run issued an HTTP request
    statsIssued, \* per process: has the run issued a per-club stats request
    stamped,    \* the timestamped artifacts: name (a clock second) and content
    latest,     \* the content of latest.json (0: what was there before)
    wrote,      \* per process: has the run written an artifact
    \* ---- make_request_with_retry and its callers
    caller,      \* who fetches: "stats" (fetch_club_stats) or "page" (a listing page)
    retry_count, \* the retry_count argument
    attempt,     \* the loop variable of make_request_with_retry
    fphase,      \* "idle", "loop", "returned", "validated"
    resps,       \* the responses received, one per GET, in order
    events,      \* the GETs (0) and sleeps (the delay in ms) issued, in order
    result,      \* the value make_request_with_retry returned
    verdict,     \* what the caller made of it: "none", "ok", "failed"
    \* ---- fetch_all_clubs and fetch_clubs_with_params
    catalog,        \* the items the listing endpoint may put on a page
    mock,           \* a deterministic listing endpoint (NoMock: any response may come)
    api_total,      \* the totalCount the listing endpoint reports (NoTotal: none)
    epc,            \* where fetch_all_clubs is: "idle", "start", "page", "merge",
                    \* "probe", "done"
    walk,           \* the number of the current walk, over both tiers
    all_clubs,      \* fetch_all_clubs: all_clubs
    expected_total, \* fetch_all_clubs: expected_total (NoTotal: None)
    clubs_set,      \* fetch_clubs_with_params: clubs_set
    cursor,         \* fetch_clubs_with_params: cursor (NoCursor: None)
    last_cursor,    \* fetch_clubs_with_params: last_cursor
    total_count,    \* fetch_clubs_with_params: total_count (NoTotal: None)
    walk_end,       \* which break ended the last walk (its log line)
    fetched,        \* the items of every non-empty page fetched so far
    last_event,     \* what the enumeration did last: "none", "get" or "sleep"
    \* ---- main from the return of fetch_all_clubs on: fetch_all_club_stats,
    \*      calculate_payouts, save_data
    api_counts,   \* the values the stats endpoint returns for voucherCount
    clubs,        \* the list fetch_all_clubs returned (the publicIds, in order)
    cpc,          \* where main is: "idle", "main", "loop", "collected",
                  \* "calculated", "stamped", "saved", "aborted", "raised"
    idx,          \* fetch_all_club_stats: idx
    all_stats,    \* fetch_all_club_stats: all_stats, later clubs_with_payouts
    failed_clubs, \* fetch_all_club_stats: failed_clubs
    payloads,     \* what make_request_with_retry returned, club by club
    cevents,      \* the stats fetches and rate-limit sleeps issued, in order
    metadata,     \* calculate_payouts: metadata (NoMetadata: not computed)
    stamped_file, \* the content written to stats_<timestamp>.json (NoFile: none)
    latest_file,  \* the content written to latest.json (NoFile: not written)
    \* ---- single calls: the payout expression, ScraperLock.release
    pay_count,        \* club["voucherCount"], as the fraction num / den
    pay_worth,        \* voucher_worth, in hundredths
    estimated_payout, \* estimated_payout, in hundredths
    ppc,              \* "idle", "call", "returned"
    released          \* how often release() was called again after it returned

lockVars == <<now, lock, pc, acquired, outcome, httpIssued, statsIssued, stamped,
              latest, wrote>>

fetchVars == <<caller, retry_count, attempt, fphase, resps, events, result, verdict>>

enumVars == <<catalog, mock, api_total, epc, walk, all_clubs, expected_total,
              clubs_set, cursor, last_cursor, total_count, walk_end, fetched,
              last_event>>

collectVars == <<api_counts, clubs, cpc, idx, all_stats, failed_clubs, payloads, cevents,
                 metadata, stamped_file, latest_file>>

unitVars == <<pay_count, pay_worth, estimated_payout, ppc, released>>

vars == <<lockVars, fetchVars, enumVars, collectVars, unitVars>>

---------------------------------------------------------------------------
(* Bounds and program constants                                            *)

LOCK_TIMEOUT == 600

\* The clock advances in steps of TickStep up to MaxTime.
TickStep == 300
MaxTime == 1200

Procs == {1, 2}

\* The pid found in a lock file left behind by an earlier, killed run.
OldPid == 0

NoLock == [exists |-> FALSE, pid |-> 0, mtime |-> 0]

---------------------------------------------------------------------------
(* ScraperLock                                                             *)

\* A faulty variant of IsFresh: the boundary age counts as fresh.
IsFreshInclusive(lock_age) == lock_age <= LOCK_TIMEOUT

\* acquire: `if lock_age < self.timeout: raise ScraperLockError`
IsFresh(lock_age) == lock_age < LOCK_TIMEOUT

\* acquire: `self.lock_file.write_text(str(os.getpid()))`
LockFileWritten(p, t) == [exists |-> TRUE, pid |-> p, mtime |-> t]

\* acquire, first step: `if self.lock_file.exists():`
AcqExists(p) ==
    /\ pc[p] = "init"
    /\ pc' = [pc EXCEPT ![p] = IF lock.exists THEN "stat" ELSE "write"]
    /\ UNCHANGED <<now, lock, acquired, outcome, httpIssued, statsIssued, stamped, latest, wrote>>
    /\ UNCHANGED <<fetchVars, enumVars, collectVars, unitVars>>

\* A faulty variant of AcqStat: the lock file is removed before its age is looked at.
AcqStatUnlinkFirst(p) ==
    /\ pc[p] = "stat"
    /\ IF ~lock.exists
         THEN pc' = [pc EXCEPT ![p] = "os_error"] /\ lock' = lock
         ELSE /\ lock' = NoLock
              /\ pc' = [pc EXCEPT ![p] =
                          IF IsFresh(now - lock.mtime) THEN "lock_held" ELSE "write"]
    /\ UNCHANGED <<now, acquired, outcome, httpIssued, statsIssued, stamped, latest, wrote>>
    /\ UNCHANGED <<fetchVars, enumVars, collectVars, unitVars>>

\* acquire, second step: stat() of the lock file (FileNotFoundError when it is
\* gone by now), the age test and the raise of ScraperLockError.  The error
\* leaves __enter__, so __exit__ is not run; main catches it and returns.
AcqStat(p) ==
    /\ pc[p] = "stat"
    /\ pc' = [pc EXCEPT ![p] =
                IF ~lock.exists THEN "os_error"
                ELSE IF IsFresh(now - lock.mtime) THEN "lock_held"
                ELSE "unlink"]
    /\ UNCHANGED <<now, lock, acquired, outcome, httpIssued, statsIssued, stamped, latest, wrote>>
    /\ UNCHANGED <<fetchVars, enumVars, collectVars, unitVars>>

\* acquire, third step: `self.lock_file.unlink()` of the stale file
\* (FileNotFoundError when it is gone by now).
AcqUnlink(p) ==
    /\ pc[p] = "unlink"
    /\ IF lock.exists
         THEN lock' = NoLock /\ pc' = [pc EXCEPT ![p] = "write"]
         ELSE lock' = lock /\ pc' = [pc EXCEPT ![p] = "os_error"]
    /\ UNCHANGED <<now, acquired, outcome, httpIssued, statsIssued, stamped, latest, wrote>>
    /\ UNCHANGED <<fetchVars, enumVars, collectVars, unitVars>>

\* acquire, last step: write_text of the pid, `self.acquired = True`.
AcqWrite(p) ==
    /\ pc[p] = "write"
    /\ lock' = LockFileWritten(p, now)
    /\ acquired' = [acquired EXCEPT ![p] = TRUE]
    /\ pc' = [pc EXCEPT ![p] = "enumerating"]
    /\ UNCHANGED <<now, outcome, httpIssued, statsIssued, stamped, latest, wrote>>
    /\ UNCHANGED <<fetchVars, enumVars, collectVars, unitVars>>

\* Where main ends once release has run.
Terminal(o) ==
    CASE o = "done" -> "done"
      [] o = "no_clubs" -> "aborted"
      [] OTHER -> "failed"

\* A faulty variant of ExitTo: an exception leaves the with-block without __exit__.
ExitToSkipOnRaise(o) == IF o = "exception" THEN "failed" ELSE "release"

\* Leaving the with-block, by its end, by `return` or by an exception:
\* __exit__ runs release() in every case.
ExitTo(o) == "release"

\* A faulty variant of RelCheck: the file is removed whether or not this
\* object acquired the lock.
RelCheckUnconditional(p) ==
    /\ pc[p] = "release"
    /\ pc' = [pc EXCEPT ![p] =
                IF lock.exists THEN "release_unlink" ELSE Terminal(outcome[p])]
    /\ UNCHANGED <<now, lock, acquired, outcome, httpIssued, statsIssued, stamped, latest, wrote>>
    /\ UNCHANGED <<fetchVars, enumVars, collectVars, unitVars>>

\* release, first step: `if self.acquired and self.lock_file.exists():`
RelCheck(p) ==
    /\ pc[p] = "release"
    /\ pc' = [pc EXCEPT ![p] =
                IF acquired[p] /\ lock.exists THEN "release_unlink"
                ELSE Terminal(outcome[p])]
    /\ UNCHANGED <<now, lock, acquired, outcome, httpIssued, statsIssued, stamped, latest, wrote>>
    /\ UNCHANGED <<fetchVars, enumVars, collectVars, unitVars>>

\* release, second step: unlink (FileNotFoundError when the file is gone by
\* now: the exception leaves __exit__ and main re-raises it).
RelUnlink(p) ==
    /\ pc[p] = "release_unlink"
    /\ IF lock.exists
         THEN /\ lock' = NoLock
              /\ acquired' = [acquired EXCEPT ![p] = FALSE]
              /\ pc' = [pc EXCEPT ![p] = Terminal(outcome[p])]
         ELSE /\ lock' = lock
              /\ acquired' = acquired
              /\ pc' = [pc EXCEPT ![p] = "failed"]
    /\ UNCHANGED <<now, outcome, httpIssued, statsIssued, stamped, latest, wrote>>
    /\ UNCHANGED <<fetchVars, enumVars, collectVars, unitVars>>

---------------------------------------------------------------------------
(* main: the pipeline inside the with-block                                *)

\* Leave the with-block of process p with outcome o.
Leave(p, o) ==
    /\ outcome' = [outcome EXCEPT ![p] = o]
    /\ pc' = [pc EXCEPT ![p] = ExitTo(o)]

\* A faulty variant of Enumerate: with no clubs the run goes on to the
\* collection instead of returning.
EnumerateNoAbort(p) ==
    /\ pc[p] = "enumerating"
    /\ httpIssued' = [httpIssued EXCEPT ![p] = TRUE]
    /\ \E r \in {"clubs", "no_clubs", "exception"} :
          IF r = "clubs"
            THEN pc' = [pc EXCEPT ![p] = "collecting"] /\ outcome' = outcome
            ELSE IF r = "no_clubs"
            THEN /\ pc' = [pc EXCEPT ![p] = "collecting"]
                 /\ outcome' = [outcome EXCEPT ![p] = r]
            ELSE Leave(p, r)
    /\ UNCHANGED <<now, lock, acquired, statsIssued, stamped, latest, wrote>>
    /\ UNCHANGED <<fetchVars, enumVars, collectVars, unitVars>>

\* Step 1: fetch_all_clubs, then `if not clubs: return`.
Enumerate(p) ==
    /\ pc[p] = "enumerating"
    /\ httpIssued' = [httpIssued EXCEPT ![p] = TRUE]
    /\ \E r \in {"clubs", "no_clubs", "exception"} :
          IF r = "clubs"
            THEN pc' = [pc EXCEPT ![p] = "collecting"] /\ outcome' = outcome
            ELSE Leave(p, r)
    /\ UNCHANGED <<now, lock, acquired, statsIssued, stamped, latest, wrote>>
    /\ UNCHANGED <<fetchVars, enumVars, collectVars, unitVars>>

\* A faulty variant of Collect: the run goes from the collection straight
\* to save_data.
CollectSkipsAggregation(p) ==
    /\ pc[p] = "collecting"
    /\ statsIssued' = [statsIssued EXCEPT ![p] = TRUE]
    /\ \E r \in {"stats", "exception"} :
          IF r = "stats"
            THEN pc' = [pc EXCEPT ![p] = "publishing"] /\ outcome' = outcome
            ELSE Leave(p, r)
    /\ UNCHANGED <<now, lock, acquired, httpIssued, stamped, latest, wrote>>
    /\ UNCHANGED <<fetchVars, enumVars, collectVars, unitVars>>

\* Step 2: fetch_all_club_stats.
Collect(p) ==
    /\ pc[p] = "collecting"
    /\ statsIssued' = [statsIssued EXCEPT ![p] = TRUE]
    /\ \E r \in {"stats", "exception"} :
          IF r = "stats"
            THEN pc' = [pc EXCEPT ![p] = "aggregating"] /\ outcome' = outcome
            ELSE Leave(p, r)
    /\ UNCHANGED <<now, lock, acquired, httpIssued, stamped, latest, wrote>>
    /\ UNCHANGED <<fetchVars, enumVars, collectVars, unitVars>>

\* A faulty variant of Aggregate: the aggregation already updates latest.json.
AggregateAndMirror(p) ==
    /\ pc[p] = "aggregating"
    /\ latest' = p
    /\ \E r \in {"payouts", "exception"} :
          IF r = "payouts"
            THEN pc' = [pc EXCEPT ![p] = "publishing"] /\ outcome' = outcome
            ELSE Leave(p, r)
    /\ UNCHANGED <<now, lock, acquired, httpIssued, statsIssued, stamped, wrote>>
    /\ UNCHANGED <<fetchVars, enumVars, collectVars, unitVars>>

\* Step 3: calculate_payouts.
Aggregate(p) ==
    /\ pc[p] = "aggregating"
    /\ \E r \in {"payouts", "exception"} :
          IF r = "payouts"
            THEN pc' = [pc EXCEPT ![p] = "publishing"] /\ outcome' = outcome
            ELSE Leave(p, r)
    /\ UNCHANGED <<now, lock, acquired, httpIssued, statsIssued, stamped, latest, wrote>>
    /\ UNCHANGED <<fetchVars, enumVars, collectVars, unitVars>>

\* Step 4, save_data, first write: stats_<timestamp>.json, the timestamp being
\* the clock second.  A file of that name is overwritten.
PublishStamped(p) ==
    /\ pc[p] = "publishing"
    /\ \E r \in {"written", "exception"} :
          IF r = "written"
            THEN /\ stamped' = {f \in stamped : f.name # now}
                                 \cup {[name |-> now, content |-> p]}
                 /\ wrote' = [wrote EXCEPT ![p] = TRUE]
                 /\ pc' = [pc EXCEPT ![p] = "publish_latest"]
                 /\ outcome' = outcome
            ELSE /\ Leave(p, r)
                 /\ UNCHANGED <<stamped, wrote>>
    /\ UNCHANGED <<now, lock, acquired, httpIssued, statsIssued, latest>>
    /\ UNCHANGED <<fetchVars, enumVars, collectVars, unitVars>>

\* Step 4, save_data, second write: latest.json; then the with-block ends.
PublishLatest(p) ==
    /\ pc[p] = "publish_latest"
    /\ \E r \in {"done", "exception"} :
          /\ latest' = IF r = "done" THEN p ELSE latest
          /\ Leave(p, r)
    /\ UNCHANGED <<now, lock, acquired, httpIssued, statsIssued, stamped, wrote>>
    /\ UNCHANGED <<fetchVars, enumVars, collectVars, unitVars>>

\* Time passes.
Tick ==
    /\ now + TickStep <= MaxTime
    /\ now' = now + TickStep
    /\ UNCHANGED <<lock, pc, acquired, outcome, httpIssued, statsIssued, stamped, latest, wrote>>
    /\ UNCHANGED <<fetchVars, enumVars, collectVars, unitVars>>

---------------------------------------------------------------------------
(* The listing endpoint, as the enumerator sees it                         *)

\* The club ids the endpoint knows.
MaxId == 2
Ids == 1..MaxId

\* Python None for a total, and for a cursor.
NoTotal == -1
NoCursor == "None"

Cursors == {"c1", "c2"}

\* The items a page may hold: each club under its name.
PlainItems == {[publicId |-> i, name |-> "n"] : i \in Ids}

\* The items of one club that the endpoint lists under two display names
\* (the name was changed between two responses).
RenamedItems == {[publicId |-> 1, name |-> "n"], [publicId |-> 1, name |-> "m"]}

\* The items of an endpoint that lists, beside a club, an item without name
\* and an item without publicId.
PartialItems == {[publicId |-> 1, name |-> "n"], [publicId |-> 2], [name |-> "m"]}

\* The totals the endpoint may report: up to one more than there are clubs.
Totals == 1..(MaxId + 1)

\* A deterministic endpoint whose every request succeeds: walk w1 is served
\* the clubs s1, walk w2 the clubs s2, and any other walk an empty first page
\* (what a query gets that is beyond the pagination ceiling).
NoMock == [on |-> FALSE, w1 |-> 0, s1 |-> {}, w2 |-> 0, s2 |-> {}]

MockServes(w) ==
    IF w = mock.w1 THEN mock.s1 ELSE IF w = mock.w2 THEN mock.s2 ELSE {}

Least(S) == CHOOSE x \in S : \A y \in S : x <= y

\* What of the clubs S is still to be served at cursor c: one club a page,
\* in id order, and after the last cursor all the rest.
MockRemaining(S, c) ==
    IF c = NoCursor \/ S = {} THEN S
    ELSE LET rest1 == S \ {Least(S)} IN
         IF c = "c1" \/ rest1 = {} THEN rest1
         ELSE rest1 \ {Least(rest1)}

\* The page the deterministic endpoint serves for the clubs S at cursor c.
MockResponse(S, c) ==
    LET rem == MockRemaining(S, c)
        served == IF rem = {} THEN {}
                  ELSE IF c = "c2" THEN rem ELSE {Least(rem)}
        left == rem \ served
    IN  [ok |-> TRUE,
         results |-> {[publicId |-> i, name |-> "n"] : i \in served},
         next |-> IF left = {} THEN NoCursor
                  ELSE IF c = NoCursor THEN "c1" ELSE "c2"]

\* What a page request ends in.  ok = FALSE: make_request_with_retry returned
\* None or a body without "results".  Otherwise the body's results and next
\* cursor; its totalCount is api_total, when the endpoint reports one.
PageResponses ==
    IF mock.on THEN {MockResponse(MockServes(walk), cursor)}
    ELSE {[ok |-> FALSE, results |-> {}, next |-> NoCursor]}
            \cup {[ok |-> TRUE, results |-> rs, next |-> c] :
                    rs \in SUBSET catalog, c \in Cursors \cup {NoCursor}}

\* How the probe request may end: it may fail, but not at the deterministic
\* endpoint.
ProbeOutcomes == IF mock.on THEN {TRUE} ELSE BOOLEAN

---------------------------------------------------------------------------
(* fetch_clubs_with_params: one walk                                       *)

\* `if "publicId" in club and "name" in club:`
HasBothKeys(club) == {"publicId", "name"} \subseteq DOMAIN club

\* `club_tuple = (club["publicId"], club["name"])`
ClubTuple(club) == <<club.publicId, club.name>>

\* A faulty variant of PageTuples: a page with an item that lacks a key adds
\* nothing.
PageTuplesIfAllWhole(results) ==
    IF \A c \in results : HasBothKeys(c)
      THEN {ClubTuple(club) : club \in results}
      ELSE {}

\* The tuples a page adds to clubs_set.
PageTuples(results) == {ClubTuple(club) : club \in {c \in results : HasBothKeys(c)}}

\* A faulty variant of TotalReached: the total counts as reached one short of it.
TotalNearlyReached(n, total) == total # NoTotal /\ n + 1 >= total

\* A faulty variant of TotalReached: the total counts as reached only when exceeded.
TotalExceeded(n, total) == total # NoTotal /\ n > total

\* `if total_count is not None and len(clubs_set) >= total_count:` and, in
\* fetch_all_clubs, `if expected_total is not None and len(all_clubs) >= expected_total:`
TotalReached(n, total) == total # NoTotal /\ n >= total

\* A faulty variant of CursorStuck: the cursor is compared with nothing.
CursorNeverStuck(c, last) == FALSE

\* `if cursor == last_cursor:`
CursorStuck(c, last) == c = last

\* A faulty variant of OnFailure: the walk returns nothing when a page fetch failed.
OnFailureDiscard(st) == [st EXCEPT !.clubs_set = {}] @@ [end |-> "failed"]

\* `if not data or "results" not in data: ... break`, then `return clubs_set`:
\* the walk ends with what it has.
OnFailure(st) == st @@ [end |-> "failed"]

\* One iteration of `while True:` for the page response r: the new values of
\* the walk's variables, and in `end` which break was taken ("continue": none).
WalkStep(r) ==
    LET tc == IF total_count = NoTotal THEN api_total ELSE total_count
        cs == clubs_set \cup PageTuples(r.results)
        st == [clubs_set |-> clubs_set, cursor |-> cursor,
               last_cursor |-> last_cursor, total_count |-> total_count]
        seen == [st EXCEPT !.total_count = tc]
        added == [seen EXCEPT !.clubs_set = cs]
        moved == [added EXCEPT !.cursor = r.next]
    IN  IF ~r.ok THEN OnFailure(st)
        ELSE IF r.results = {} THEN seen @@ [end |-> "empty"]
        ELSE IF TotalReached(Cardinality(cs), tc) THEN added @@ [end |-> "total"]
        ELSE IF r.next = NoCursor THEN moved @@ [end |-> "no_cursor"]
        ELSE IF CursorStuck(r.next, last_cursor) THEN moved @@ [end |-> "stuck"]
        ELSE [moved EXCEPT !.last_cursor = r.next] @@ [end |-> "continue"]

\* The request of one page and the rest of the loop body; on a break the walk
\* returns clubs_set.
FetchPage ==
    /\ epc = "page"
    /\ \E r \in PageResponses :
          LET n == WalkStep(r) IN
          /\ clubs_set' = n.clubs_set
          /\ cursor' = n.cursor
          /\ last_cursor' = n.last_cursor
          /\ total_count' = n.total_count
          /\ walk_end' = n.end
          /\ epc' = IF n.end = "continue" THEN "page" ELSE "merge"
          /\ fetched' = IF r.ok THEN fetched \cup r.results ELSE fetched
          /\ last_event' = IF n.end = "continue" THEN "sleep" ELSE "get"
    /\ UNCHANGED <<catalog, mock, api_total, walk, all_clubs, expected_total>>
    /\ UNCHANGED <<lockVars, fetchVars, collectVars, unitVars>>

---------------------------------------------------------------------------
(* fetch_all_clubs: the walks of both tiers                                *)

Orderings ==
    <<"default", "voucher_count", "-voucher_count", "member_count",
      "-member_count", "name", "-name">>
AgeGroups == <<"0_5", "6_11", "12_15", "16_99">>
AgeGroupOrderings == <<"default", "voucher_count", "-voucher_count">>

\* Walks 1..Len(Orderings) are tier 1; the rest are tier 2, age group by age group.
NumWalks == Len(Orderings) + Len(AgeGroups) * Len(AgeGroupOrderings)
InTier1(w) == w <= Len(Orderings)

\* The call of fetch_clubs_with_params for walk number `walk`.
StartWalk ==
    /\ epc = "start"
    /\ clubs_set' = {}
    /\ cursor' = NoCursor
    /\ last_cursor' = NoCursor
    /\ total_count' = NoTotal
    /\ walk_end' = "continue"
    /\ epc' = "page"
    /\ UNCHANGED <<catalog, mock, api_total, walk, all_clubs, expected_total, fetched,
                   last_event>>
    /\ UNCHANGED <<lockVars, fetchVars, collectVars, unitVars>>

\* A faulty variant of Tier2Gate: tier 2 is always run.
Tier2Always(n, expected) == TRUE

\* `if expected_total is None or len(all_clubs) < expected_total:`
Tier2Gate(n, expected) == expected = NoTotal \/ n < expected

\* A faulty variant of NextWalk: in tier 2 the `break` leaves the age group
\* only, and the next age group is started.
NextWalkInnerBreakOnly(w, n, expected) ==
    LET k == Len(AgeGroupOrderings)
        group == (w - Len(Orderings) - 1) \div k
        nextGroup == Len(Orderings) + (group + 1) * k + 1
    IN  IF InTier1(w)
          THEN IF ~TotalReached(n, expected) /\ w < Len(Orderings) THEN w + 1
               ELSE IF Tier2Gate(n, expected) THEN Len(Orderings) + 1
               ELSE 0
          ELSE IF ~TotalReached(n, expected) /\ w < NumWalks THEN w + 1
               ELSE IF TotalReached(n, expected) /\ nextGroup <= NumWalks THEN nextGroup
               ELSE 0

\* What follows walk w once its clubs are merged and the early-stop test is
\* made with n clubs and the expected total: the next walk, or 0 for the end.
\* In tier 1 the `break` and the end of the loop both lead to the tier-2 test;
\* in tier 2 the inner `break` is followed by the outer one.
NextWalk(w, n, expected) ==
    IF InTier1(w)
      THEN IF ~TotalReached(n, expected) /\ w < Len(Orderings) THEN w + 1
           ELSE IF Tier2Gate(n, expected) THEN Len(Orderings) + 1
           ELSE 0
      ELSE IF ~TotalReached(n, expected) /\ w < NumWalks THEN w + 1
           ELSE 0

\* Go on with the walk NextWalk names, or return the list of clubs.
GoOn(n, expected) ==
    LET w == NextWalk(walk, n, expected) IN
    /\ walk' = IF w = 0 THEN walk ELSE w
    /\ epc' = IF w = 0 THEN "done" ELSE "start"

\* After a walk returned: `all_clubs.update(clubs)`; in tier 1, while no total
\* is known and the walk found clubs, the totalCount probe comes next;
\* otherwise the early-stop test.
Merge ==
    /\ epc = "merge"
    /\ all_clubs' = all_clubs \cup clubs_set
    /\ IF InTier1(walk) /\ expected_total = NoTotal /\ clubs_set # {}
         THEN epc' = "probe" /\ walk' = walk
         ELSE GoOn(Cardinality(all_clubs'), expected_total)
    /\ UNCHANGED <<catalog, mock, api_total, expected_total, clubs_set, cursor, last_cursor,
                   total_count, walk_end, fetched, last_event>>
    /\ UNCHANGED <<lockVars, fetchVars, collectVars, unitVars>>

\* The probe request of tier 1 (`if data and "totalCount" in data:`), then the
\* early-stop test.  The request may fail.
Probe ==
    /\ epc = "probe"
    /\ \E ok \in ProbeOutcomes :
          /\ expected_total' = IF ok THEN api_total ELSE expected_total
          /\ GoOn(Cardinality(all_clubs), expected_total')
    /\ last_event' = "get"
    /\ UNCHANGED <<catalog, mock, api_total, all_clubs, clubs_set, cursor, last_cursor,
                   total_count, walk_end, fetched>>
    /\ UNCHANGED <<lockVars, fetchVars, collectVars, unitVars>>

\* No enumeration in progress.
IdleEnum ==
    /\ catalog = {}
    /\ mock = NoMock
    /\ api_total = NoTotal
    /\ epc = "idle"
    /\ walk = 0
    /\ all_clubs = {}
    /\ expected_total = NoTotal
    /\ clubs_set = {}
    /\ cursor = NoCursor
    /\ last_cursor = NoCursor
    /\ total_count = NoTotal
    /\ walk_end = "continue"
    /\ fetched = {}
    /\ last_event = "none"

---------------------------------------------------------------------------
(* make_request_with_retry, fetch_club_stats and the page check            *)

RETRY_ATTEMPTS == 3

\* RETRY_DELAYS and RATE_LIMIT_DELAY, in milliseconds.
RETRY_DELAYS == <<100, 200, 400>>
RATE_LIMIT_DELAY == 20

\* The largest retry_count tried.
MaxRetryCount == 5

\* The event of a GET in `events`; a sleep is its delay.
GET == 0

\* A faulty variant of Min: past b the value starts again at 0.
MinOrWrap(a, b) == IF a <= b THEN a ELSE 0

Min(a, b) == IF a < b THEN a ELSE b

\* What a GET can end in: an HTTP error status (raise_for_status), a network
\* failure or timeout, an empty body, a body that is not JSON, or a parsed body.
FailKinds == {"http_error", "network", "empty_body", "bad_json"}

\* The fields a parsed body may carry.
Fields == {"voucherCount", "results", "totalCount"}

\* Python values: None (also what JSON null parses to), or a dict with fields.
NoneValue == [none |-> TRUE, fields |-> {}]
Dict(fs) == [none |-> FALSE, fields |-> fs]
Bodies == {NoneValue} \cup {Dict(fs) : fs \in SUBSET Fields}

Responses ==
    {[kind |-> k, body |-> NoneValue] : k \in FailKinds}
        \cup {[kind |-> "ok", body |-> b] : b \in Bodies}

\* Python truth of a returned value: None and {} are false.
Truthy(v) == ~v.none /\ v.fields # {}

\* A faulty variant of DelayFor: the schedule is indexed one too far.
DelayForNext(a) == RETRY_DELAYS[Min(a + 1, Len(RETRY_DELAYS) - 1) + 1]

\* `delay = RETRY_DELAYS[min(attempt, len(RETRY_DELAYS) - 1)]` (0-based)
DelayFor(a) == RETRY_DELAYS[Min(a, Len(RETRY_DELAYS) - 1) + 1]

\* A faulty variant of RetriesLeft: the last attempt sleeps and tries again.
RetriesLeftInclusive(a, rc) == a <= rc - 1

\* `if attempt < retry_count - 1:` in each except clause
RetriesLeft(a, rc) == a < rc - 1

\* The outcomes of a GET that reach an except clause of the loop: HTTPError,
\* JSONDecodeError, RequestException or ValueError.  A parsed body is returned.
Retried(r) == r.kind # "ok"

\* One iteration of `for attempt in range(retry_count)`: the GET and, when it
\* failed, either the sleep before the next attempt or `return None`.
Attempt ==
    /\ fphase = "loop"
    /\ attempt < retry_count
    /\ \E r \in Responses :
          /\ resps' = Append(resps, r)
          /\ IF ~Retried(r)
               THEN /\ events' = Append(events, GET)
                    /\ result' = r.body
                    /\ fphase' = "returned"
                    /\ attempt' = attempt
               ELSE IF RetriesLeft(attempt, retry_count)
               THEN /\ events' = events \o <<GET, DelayFor(attempt)>>
                    /\ result' = result
                    /\ fphase' = "loop"
                    /\ attempt' = attempt + 1
               ELSE /\ events' = Append(events, GET)
                    /\ result' = NoneValue
                    /\ fphase' = "returned"
                    /\ attempt' = attempt
    /\ UNCHANGED <<caller, retry_count, verdict>>
    /\ UNCHANGED <<lockVars, enumVars, collectVars, unitVars>>

\* `return None` after the loop, reached when the range is used up.
Exhausted ==
    /\ fphase = "loop"
    /\ attempt >= retry_count
    /\ result' = NoneValue
    /\ fphase' = "returned"
    /\ UNCHANGED <<caller, retry_count, attempt, resps, events, verdict>>
    /\ UNCHANGED <<lockVars, enumVars, collectVars, unitVars>>

\* The field the caller requires of the returned dict.
RequiredField(c) == IF c = "stats" THEN "voucherCount" ELSE "results"

\* A faulty variant of Accepts: the required field is not looked for.
AcceptsAnyDict(c, data) == Truthy(data)

\* fetch_club_stats: `if not data: return None`,
\*                   `if "voucherCount" not in data: return None`;
\* fetch_clubs_with_params: `if not data or "results" not in data: break`.
Accepts(c, data) == Truthy(data) /\ RequiredField(c) \in data.fields

\* The caller's check of what make_request_with_retry returned.
Validate ==
    /\ fphase = "returned"
    /\ verdict' = IF Accepts(caller, result) THEN "ok" ELSE "failed"
    /\ fphase' = "validated"
    /\ UNCHANGED <<caller, retry_count, attempt, resps, events, result>>
    /\ UNCHANGED <<lockVars, enumVars, collectVars, unitVars>>

\* No fetch in progress.
IdleFetch ==
    /\ caller = "stats"
    /\ retry_count = RETRY_ATTEMPTS
    /\ attempt = 0
    /\ fphase = "idle"
    /\ resps = <<>>
    /\ events = <<>>
    /\ result = NoneValue
    /\ verdict = "none"

\* No run in progress.
IdleLock ==
    /\ now = 0
    /\ lock = NoLock
    /\ pc = [p \in Procs |-> "off"]
    /\ acquired = [p \in Procs |-> FALSE]
    /\ outcome = [p \in Procs |-> "none"]
    /\ httpIssued = [p \in Procs |-> FALSE]
    /\ statsIssued = [p \in Procs |-> FALSE]
    /\ stamped = {}
    /\ latest = 0
    /\ wrote = [p \in Procs |-> FALSE]

---------------------------------------------------------------------------
(* main after fetch_all_clubs: fetch_all_club_stats, calculate_payouts and *)
(* save_data                                                               *)

\* The longest list of clubs collected.
MaxClubs == 3

\* The lists fetch_all_clubs may return.
ClubLists == UNION {[1..n -> Ids] : n \in 0..MaxClubs}

\* The values of voucherCount the stats endpoint returns according to its
\* description: non-negative integers.
VoucherCounts == {0, 1, 100}

\* JSON null as the value of voucherCount (None in Python); no number.
NoneCount == -999

\* Values of voucherCount outside that description, which a response may
\* carry all the same: a negative number and null, beside a proper one.
RawCounts == {-5, NoneCount, 7}

\* TOTAL_PRIZE_POOL, in hundredths; amounts of money are counted in hundredths.
TOTAL_PRIZE_POOL == 300000000

\* What make_request_with_retry returns for a stats URL: None, or the parsed
\* dict with its fields and (when it has that field) its voucherCount.
StatsNone == [none |-> TRUE, fields |-> {}, voucherCount |-> 0]
StatsDict(fs, v) == [none |-> FALSE, fields |-> fs, voucherCount |-> v]
StatsReturns ==
    {StatsNone, StatsDict({"fanCount"}, 0)}
        \cup {StatsDict({"voucherCount", "fanCount"}, v) : v \in api_counts}

\* A faulty variant of StatsOf: a failed fetch is turned into a count of zero.
StatsZeroFilled(data) ==
    IF Accepts("stats", data) THEN data ELSE StatsDict({"voucherCount"}, 0)

\* fetch_club_stats: the dict make_request_with_retry returned, or None when
\* it is false or has no voucherCount.
StatsOf(data) == IF Accepts("stats", data) THEN data ELSE StatsNone

\* `club_data = {"publicId": public_id, ..., "voucherCount": stats.get("voucherCount", 0)}`;
\* of the fields only publicId and voucherCount are kept.
ClubData(public_id, stats) ==
    [publicId |-> public_id, voucherCount |-> stats.voucherCount]

\* The events of `cevents`.
FetchOf(public_id) == <<"fetch", public_id>>
Sleep == <<"sleep", RATE_LIMIT_DELAY>>

\* A faulty variant of RateLimited: a sleep follows the last club as well.
RateLimitedAlways(i, total) == i <= total

\* `if idx < total_clubs: time.sleep(RATE_LIMIT_DELAY)`
RateLimited(i, total) == i < total

\* A faulty variant of AfterFailure: a failed club ends the batch.
AbortBatch(i, total) == total + 1

\* `continue` after a failed club: the loop goes on with the next one.
AfterFailure(i, total) == i + 1

\* `if not clubs: return`, else the call of fetch_all_club_stats.
CheckClubs ==
    /\ cpc = "main"
    /\ cpc' = IF clubs = <<>> THEN "aborted" ELSE "loop"
    /\ UNCHANGED <<api_counts, clubs, idx, all_stats, failed_clubs, payloads, cevents,
                   metadata, stamped_file, latest_file>>
    /\ UNCHANGED <<lockVars, fetchVars, enumVars, unitVars>>

\* One iteration of `for idx, club in enumerate(clubs, 1)`: the fetch, the
\* record or the entry in failed_clubs, and the rate-limit sleep.
CollectOne ==
    /\ cpc = "loop"
    /\ idx <= Len(clubs)
    /\ \E data \in StatsReturns :
          LET stats == StatsOf(data)
              slept == IF RateLimited(idx, Len(clubs)) THEN <<Sleep>> ELSE <<>>
          IN  /\ payloads' = Append(payloads, data)
              /\ cevents' = Append(cevents, FetchOf(clubs[idx])) \o slept
              /\ IF stats.none
                   THEN /\ failed_clubs' = Append(failed_clubs, clubs[idx])
                        /\ all_stats' = all_stats
                        /\ idx' = AfterFailure(idx, Len(clubs))
                   ELSE /\ all_stats' = Append(all_stats, ClubData(clubs[idx], stats))
                        /\ failed_clubs' = failed_clubs
                        /\ idx' = idx + 1
    /\ UNCHANGED <<api_counts, clubs, cpc, metadata, stamped_file, latest_file>>
    /\ UNCHANGED <<lockVars, fetchVars, enumVars, unitVars>>

\* The end of the loop: `return all_stats`.
CollectReturn ==
    /\ cpc = "loop"
    /\ idx > Len(clubs)
    /\ cpc' = "collected"
    /\ UNCHANGED <<api_counts, clubs, idx, all_stats, failed_clubs, payloads, cevents,
                   metadata, stamped_file, latest_file>>
    /\ UNCHANGED <<lockVars, fetchVars, enumVars, unitVars>>

\* A faulty variant of TotalVouchers: the first club is left out of the sum.
RECURSIVE TotalVouchersButFirst(_)
TotalVouchersButFirst(stats) ==
    IF Len(stats) <= 1 THEN 0
    ELSE stats[Len(stats)].voucherCount
            + TotalVouchersButFirst(SubSeq(stats, 1, Len(stats) - 1))

\* `total_vouchers = sum(club["voucherCount"] for club in clubs_stats)`
RECURSIVE TotalVouchers(_)
TotalVouchers(stats) ==
    IF stats = <<>> THEN 0
    ELSE Head(stats).voucherCount + TotalVouchers(Tail(stats))

\* round(num / den, 2) for amounts in hundredths, num >= 0 and den > 0: the
\* nearest hundredth, a tie going to the even one.
RoundHalfEven(num, den) ==
    LET q == num \div den
        r == num % den
    IN  IF 2 * r < den THEN q
        ELSE IF 2 * r > den THEN q + 1
        ELSE IF q % 2 = 0 THEN q ELSE q + 1

\* round(num / den, 2) for any signs: round is symmetric about zero.
Round2(num, den) ==
    LET n == IF den < 0 THEN 0 - num ELSE num
        d == IF den < 0 THEN 0 - den ELSE den
    IN  IF n < 0 THEN 0 - RoundHalfEven(0 - n, d) ELSE RoundHalfEven(n, d)

\* A faulty variant of VoucherWorth: with no vouchers the pool is divided by one.
VoucherWorthFloorOne(total_vouchers) ==
    Round2(TOTAL_PRIZE_POOL, IF total_vouchers = 0 THEN 1 ELSE total_vouchers)

\* `voucher_worth = 0.0` or `round(TOTAL_PRIZE_POOL / total_vouchers, 2)`
VoucherWorth(total_vouchers) ==
    IF total_vouchers = 0 THEN 0 ELSE Round2(TOTAL_PRIZE_POOL, total_vouchers)

\* `round(club["voucherCount"] * voucher_worth, 2)` for the voucherCount
\* count_num / count_den and a voucher_worth in hundredths.
Payout(count_num, count_den, voucher_worth) ==
    Round2(count_num * voucher_worth, count_den)

\* A faulty variant of WithPayout: the worth of one voucher is taken as the payout.
WithPayoutFlat(club, voucher_worth) ==
    [publicId |-> club.publicId, voucherCount |-> club.voucherCount,
     estimatedPayout |-> voucher_worth]

\* `club["estimatedPayout"] = estimated_payout`
WithPayout(club, voucher_worth) ==
    [publicId |-> club.publicId, voucherCount |-> club.voucherCount,
     estimatedPayout |-> Payout(club.voucherCount, 1, voucher_worth)]

NoMetadata == [computed |-> FALSE, totalClubs |-> 0, totalVouchers |-> 0,
               voucherWorth |-> 0]

\* calculate_payouts; `sum` raises TypeError on a voucherCount of None.
CalculatePayouts ==
    /\ cpc = "collected"
    /\ IF \E i \in 1..Len(all_stats) : all_stats[i].voucherCount = NoneCount
         THEN /\ cpc' = "raised"
              /\ UNCHANGED <<all_stats, metadata>>
         ELSE LET total_vouchers == TotalVouchers(all_stats)
                  voucher_worth == VoucherWorth(total_vouchers)
              IN  /\ all_stats' = [i \in 1..Len(all_stats) |->
                                      WithPayout(all_stats[i], voucher_worth)]
                  /\ metadata' = [computed |-> TRUE, totalClubs |-> Len(all_stats),
                                  totalVouchers |-> total_vouchers,
                                  voucherWorth |-> voucher_worth]
                  /\ cpc' = "calculated"
    /\ UNCHANGED <<api_counts, clubs, idx, failed_clubs, payloads, cevents, stamped_file,
                   latest_file>>
    /\ UNCHANGED <<lockVars, fetchVars, enumVars, unitVars>>

NoFile == [written |-> FALSE, metadata |-> NoMetadata, clubs |-> <<>>]

\* `output_data = {"metadata": metadata, "clubs": clubs_with_payouts}`
OutputData == [written |-> TRUE, metadata |-> metadata, clubs |-> all_stats]

\* save_data, the write of stats_<timestamp>.json; it may raise (OSError).
WriteStampedFile ==
    /\ cpc = "calculated"
    /\ \E ok \in BOOLEAN :
          /\ stamped_file' = IF ok THEN OutputData ELSE stamped_file
          /\ cpc' = IF ok THEN "stamped" ELSE "raised"
    /\ UNCHANGED <<api_counts, clubs, idx, all_stats, failed_clubs, payloads, cevents,
                   metadata, latest_file>>
    /\ UNCHANGED <<lockVars, fetchVars, enumVars, unitVars>>

\* A faulty variant of WriteLatestFile: latest.json is written before the
\* timestamped file.
WriteLatestFirst ==
    /\ cpc = "calculated"
    /\ \E ok \in BOOLEAN :
          /\ latest_file' = IF ok THEN OutputData ELSE latest_file
          /\ cpc' = IF ok THEN "saved" ELSE "raised"
    /\ UNCHANGED <<api_counts, clubs, idx, all_stats, failed_clubs, payloads, cevents,
                   metadata, stamped_file>>
    /\ UNCHANGED <<lockVars, fetchVars, enumVars, unitVars>>

\* save_data, the write of latest.json; it may raise.
WriteLatestFile ==
    /\ cpc = "stamped"
    /\ \E ok \in BOOLEAN :
          /\ latest_file' = IF ok THEN OutputData ELSE latest_file
          /\ cpc' = IF ok THEN "saved" ELSE "raised"
    /\ UNCHANGED <<api_counts, clubs, idx, all_stats, failed_clubs, payloads, cevents,
                   metadata, stamped_file>>
    /\ UNCHANGED <<lockVars, fetchVars, enumVars, unitVars>>

---------------------------------------------------------------------------
(* Single calls: the payout expression and ScraperLock.release             *)

MaxCountNum == 7
MaxQuarters == 7
MaxReleases == 2

\* The values of club["voucherCount"]: the API's integers (den 1) and, the
\* payload's type being unchecked, halves (den 2).
PayCounts == [num : 0..MaxCountNum, den : {1, 2}]

\* The values of voucher_worth: multiples of 0.25, which a double holds
\* exactly, among them the worth computed for 256 vouchers (11718.75).
PayWorths == {25 * k : k \in 0..MaxQuarters} \cup {VoucherWorth(256)}

\* `estimated_payout = round(club["voucherCount"] * voucher_worth, 2)`
ComputePayout ==
    /\ ppc = "call"
    /\ estimated_payout' = Payout(pay_count.num, pay_count.den, pay_worth)
    /\ ppc' = "returned"
    /\ UNCHANGED <<pay_count, pay_worth, released>>
    /\ UNCHANGED <<lockVars, fetchVars, enumVars, collectVars>>

\* release() has returned and the caller calls it again.
ReleaseAgain(p) ==
    /\ pc[p] = "done"
    /\ released < MaxReleases
    /\ released' = released + 1
    /\ pc' = [pc EXCEPT ![p] = "release"]
    /\ UNCHANGED <<now, lock, acquired, outcome, httpIssued, statsIssued, stamped, latest, wrote>>
    /\ UNCHANGED <<pay_count, pay_worth, estimated_payout, ppc>>
    /\ UNCHANGED <<fetchVars, enumVars, collectVars>>

\* No single call is under way.
IdleUnit ==
    /\ pay_count = [num |-> 0, den |-> 1]
    /\ pay_worth = 0
    /\ estimated_payout = 0
    /\ ppc = "idle"
    /\ released = 0

\* main is not past fetch_all_clubs.
IdleCollect ==
    /\ api_counts = {}
    /\ clubs = <<>>
    /\ cpc = "idle"
    /\ idx = 1
    /\ all_stats = <<>>
    /\ failed_clubs = <<>>
    /\ payloads = <<>>
    /\ cevents = <<>>
    /\ metadata = NoMetadata
    /\ stamped_file = NoFile
    /\ latest_file = NoFile

\* fetch_all_clubs has returned some list.
InitCollect ==
    /\ IdleLock
    /\ IdleFetch
    /\ IdleEnum
    /\ IdleUnit
    /\ api_counts = VoucherCounts
    /\ clubs \in ClubLists
    /\ cpc = "main"
    /\ idx = 1
    /\ all_stats = <<>>
    /\ failed_clubs = <<>>
    /\ payloads = <<>>
    /\ cevents = <<>>
    /\ metadata = NoMetadata
    /\ stamped_file = NoFile
    /\ latest_file = NoFile

NextCollect ==
    \/ CheckClubs
    \/ CollectOne
    \/ CollectReturn
    \/ CalculatePayouts
    \/ WriteStampedFile
    \/ WriteLatestFile

SpecCollect == InitCollect /\ [][NextCollect]_vars

\* As InitCollect, the stats endpoint returning any JSON value for voucherCount.
InitRaw ==
    /\ IdleLock
    /\ IdleFetch
    /\ IdleEnum
    /\ IdleUnit
    /\ api_counts = RawCounts
    /\ clubs \in ClubLists
    /\ cpc = "main"
    /\ idx = 1
    /\ all_stats = <<>>
    /\ failed_clubs = <<>>
    /\ payloads = <<>>
    /\ cevents = <<>>
    /\ metadata = NoMetadata
    /\ stamped_file = NoFile
    /\ latest_file = NoFile

SpecRaw == InitRaw /\ [][NextCollect]_vars

\* The payout expression is about to be evaluated on some count and worth.
InitPayout ==
    /\ IdleLock
    /\ IdleFetch
    /\ IdleEnum
    /\ IdleCollect
    /\ pay_count \in PayCounts
    /\ pay_worth \in PayWorths
    /\ estimated_payout = 0
    /\ ppc = "call"
    /\ released = 0

SpecPayout == InitPayout /\ [][ComputePayout]_vars

---------------------------------------------------------------------------
(* Specification of one fetch                                              *)

\* One fetch: fetch_club_stats or a listing page request calls
\* make_request_with_retry with some retry_count.
InitFetch ==
    /\ IdleLock
    /\ IdleEnum
    /\ IdleCollect
    /\ IdleUnit
    /\ caller \in {"stats", "page"}
    /\ retry_count \in 0..MaxRetryCount
    /\ attempt = 0
    /\ fphase = "loop"
    /\ resps = <<>>
    /\ events = <<>>
    /\ result = NoneValue
    /\ verdict = "none"

NextFetch == Attempt \/ Exhausted \/ Validate

SpecFetch == InitFetch /\ [][NextFetch]_vars

---------------------------------------------------------------------------
(* Specifications of the lock and the run                                  *)

\* The lock file at the start: none, or one left by a killed run, fresh or
\* older than the timeout.
InitLockFiles ==
    {NoLock,
     [exists |-> TRUE, pid |-> OldPid, mtime |-> 0],
     [exists |-> TRUE, pid |-> OldPid, mtime |-> 0 - LOCK_TIMEOUT]}

InitRunWith(running) ==
    /\ now = 0
    /\ lock \in InitLockFiles
    /\ pc = [p \in Procs |-> IF p \in running THEN "init" ELSE "off"]
    /\ acquired = [p \in Procs |-> FALSE]
    /\ outcome = [p \in Procs |-> "none"]
    /\ httpIssued = [p \in Procs |-> FALSE]
    /\ statsIssued = [p \in Procs |-> FALSE]
    /\ stamped = {}
    /\ latest = 0
    /\ wrote = [p \in Procs |-> FALSE]
    /\ IdleFetch
    /\ IdleEnum
    /\ IdleCollect
    /\ IdleUnit

MainStep(p) ==
    \/ AcqExists(p)
    \/ AcqStat(p)
    \/ AcqUnlink(p)
    \/ AcqWrite(p)
    \/ Enumerate(p)
    \/ Collect(p)
    \/ Aggregate(p)
    \/ PublishStamped(p)
    \/ PublishLatest(p)
    \/ RelCheck(p)
    \/ RelUnlink(p)

NextLock == Tick \/ \E p \in Procs : MainStep(p)

\* Two processes run main concurrently.
InitLock == InitRunWith(Procs)
SpecLock == InitLock /\ [][NextLock]_vars

\* One process runs main.
InitRun == InitRunWith({1})
SpecRun == InitRun /\ [][NextLock]_vars

\* One caller has a ScraperLock object, which has acquired the lock or has
\* not, beside a lock file of its own, of another process or none, and calls
\* release() on it, again and again.
InitRelease ==
    /\ now = 0
    /\ lock \in InitLockFiles \cup {LockFileWritten(1, 0)}
    /\ pc = [p \in Procs |-> IF p = 1 THEN "release" ELSE "off"]
    /\ acquired \in {[p \in Procs |-> p = 1 /\ a] : a \in BOOLEAN}
    /\ outcome = [p \in Procs |-> IF p = 1 THEN "done" ELSE "none"]
    /\ httpIssued = [p \in Procs |-> FALSE]
    /\ statsIssued = [p \in Procs |-> FALSE]
    /\ stamped = {}
    /\ latest = 0
    /\ wrote = [p \in Procs |-> FALSE]
    /\ IdleFetch
    /\ IdleEnum
    /\ IdleCollect
    /\ IdleUnit

NextRelease == Tick \/ RelCheck(1) \/ RelUnlink(1) \/ ReleaseAgain(1)

SpecRelease == InitRelease /\ [][NextRelease]_vars

\* One process runs main and is always scheduled again.
FairRun == InitRun /\ [][NextLock]_vars /\ WF_vars(MainStep(1))

---------------------------------------------------------------------------
(* Specification of the enumeration                                        *)

\* fetch_all_clubs is called; the endpoint reports some total, or none.
InitEnum ==
    /\ IdleLock
    /\ IdleFetch
    /\ IdleCollect
    /\ IdleUnit
    /\ catalog = PlainItems
    /\ mock = NoMock
    /\ api_total \in Totals \cup {NoTotal}
    /\ epc = "start"
    /\ walk = 1
    /\ all_clubs = {}
    /\ expected_total = NoTotal
    /\ clubs_set = {}
    /\ cursor = NoCursor
    /\ last_cursor = NoCursor
    /\ total_count = NoTotal
    /\ walk_end = "continue"
    /\ fetched = {}
    /\ last_event = "none"

NextEnum == StartWalk \/ FetchPage \/ Merge \/ Probe

SpecEnum == InitEnum /\ [][NextEnum]_vars

\* The enumeration goes on as long as it has a step to take: a walk's loop
\* asks for the next page, the walks follow one another.
FairEnum == InitEnum /\ [][NextEnum]_vars /\ WF_vars(NextEnum)

\* The deterministic endpoints tried: any two walks of the 19, each served
\* any set of the clubs, so that with an endpoint every rearrangement of it
\* over the walks is tried as well.
Mocks ==
    {[on |-> TRUE, w1 |-> a, s1 |-> sa, w2 |-> b, s2 |-> sb] :
        a \in 1..NumWalks, b \in 1..NumWalks, sa \in SUBSET Ids, sb \in SUBSET Ids}

\* fetch_all_clubs is called against a deterministic endpoint whose totalCount
\* is the number of clubs there are.
InitOrder ==
    /\ IdleLock
    /\ IdleFetch
    /\ IdleCollect
    /\ IdleUnit
    /\ catalog = PlainItems
    /\ mock \in {m \in Mocks : m.w1 < m.w2}
    /\ api_total = Cardinality(PlainItems)
    /\ epc = "start"
    /\ walk = 1
    /\ all_clubs = {}
    /\ expected_total = NoTotal
    /\ clubs_set = {}
    /\ cursor = NoCursor
    /\ last_cursor = NoCursor
    /\ total_count = NoTotal
    /\ walk_end = "continue"
    /\ fetched = {}
    /\ last_event = "none"

SpecOrder == InitOrder /\ [][NextEnum]_vars

\* fetch_all_clubs is called while the endpoint lists a club under two names.
InitRenamed ==
    /\ IdleLock
    /\ IdleFetch
    /\ IdleCollect
    /\ IdleUnit
    /\ catalog = RenamedItems
    /\ mock = NoMock
    /\ api_total \in Totals \cup {NoTotal}
    /\ epc = "start"
    /\ walk = 1
    /\ all_clubs = {}
    /\ expected_total = NoTotal
    /\ clubs_set = {}
    /\ cursor = NoCursor
    /\ last_cursor = NoCursor
    /\ total_count = NoTotal
    /\ walk_end = "continue"
    /\ fetched = {}
    /\ last_event = "none"

SpecRenamed == InitRenamed /\ [][NextEnum]_vars

\* fetch_all_clubs is called while the endpoint lists items that lack a key.
InitPartial ==
    /\ IdleLock
    /\ IdleFetch
    /\ IdleCollect
    /\ IdleUnit
    /\ catalog = PartialItems
    /\ mock = NoMock
    /\ api_total \in Totals \cup {NoTotal}
    /\ epc = "start"
    /\ walk = 1
    /\ all_clubs = {}
    /\ expected_total = NoTotal
    /\ clubs_set = {}
    /\ cursor = NoCursor
    /\ last_cursor = NoCursor
    /\ total_count = NoTotal
    /\ walk_end = "continue"
    /\ fetched = {}
    /\ last_event = "none"

SpecPartial == InitPartial /\ [][NextEnum]_vars

---------------------------------------------------------------------------
(* Properties of the lock and the run                                      *)

\* Between a successful acquire and the end of its release.
HoldingPcs ==
    {"enumerating", "collecting", "aggregating", "publishing",
     "publish_latest", "release", "release_unlink"}

Holding(p) == pc[p] \in HoldingPcs

\* Terminal states of a run that had acquired the lock.
RunEndPcs == {"done", "aborted", "failed"}

\* p's step changes where p is.
Moves(p) == pc'[p] # pc[p]

\* C1: mutual exclusion of runs.  While the clock has not reached the lock
\* timeout (so no run has lasted that long), at most one process is between
\* its successful acquire and its release, in every interleaving of the
\* acquire steps.
C1_MutualExclusion ==
    now < LOCK_TIMEOUT => Cardinality({p \in Procs : Holding(p)}) <= 1

\* C2: lock staleness, for a process that acquires undisturbed.  A lock file
\* younger than the timeout makes acquire fail with ScraperLockError and stay
\* as it is; one older than the timeout is removed and acquire goes on to
\* write; with no lock file acquire goes on to write; the write leaves the
\* file existing with the caller's pid, and acquire ends in no other way.
C2_LockStaleness ==
    /\ [][\A p \in Procs :
            /\ (Moves(p) /\ pc'[p] = "lock_held") =>
                  /\ pc[p] = "stat"
                  /\ lock.exists /\ now - lock.mtime < LOCK_TIMEOUT
                  /\ lock' = lock
            /\ (Moves(p) /\ pc[p] = "stat" /\ now - lock.mtime < LOCK_TIMEOUT) =>
                  pc'[p] = "lock_held"
            /\ (Moves(p) /\ pc[p] = "stat" /\ now - lock.mtime > LOCK_TIMEOUT) =>
                  pc'[p] = "unlink"
            /\ (Moves(p) /\ pc[p] = "unlink") =>
                  (lock.exists /\ lock' = NoLock /\ pc'[p] = "write")
            /\ (Moves(p) /\ pc[p] = "init" /\ ~lock.exists) => pc'[p] = "write"
            /\ (Moves(p) /\ pc[p] = "write") =>
                  /\ pc'[p] = "enumerating"
                  /\ acquired'[p]
                  /\ lock'.exists /\ lock'.pid = p /\ lock'.mtime = now
         ]_vars
    /\ [](\A p \in Procs : pc[p] # "os_error")
    /\ [](\A p \in Procs : pc[p] = "enumerating" => (lock.exists /\ lock.pid = p))

\* C2's case: a lock file left by a killed run, aged exactly the timeout, has
\* been found stale and is about to be removed.
C2_Witness ==
    /\ pc[1] = "unlink"
    /\ lock.exists /\ lock.pid = OldPid
    /\ now - lock.mtime = LOCK_TIMEOUT

C4_LockHeldNoSideEffects ==
    /\ [](\A p \in Procs : pc[p] = "lock_held" =>
            /\ ~httpIssued[p] /\ ~wrote[p] /\ ~acquired[p]
            /\ latest # p /\ \A f \in stamped : f.content # p)
    /\ [][\A p \in Procs :
            /\ (Moves(p) /\ pc'[p] = "lock_held") =>
                  /\ pc[p] = "stat"
                  /\ lock' = lock /\ stamped' = stamped /\ latest' = latest
            /\ pc[p] = "lock_held" => pc'[p] = "lock_held"
            /\ pc[p] \in HoldingPcs \cup RunEndPcs =>
                  pc'[p] \in HoldingPcs \cup RunEndPcs
         ]_vars

\* C4's case: a process ended with the lock-held error while the other one,
\* whose lock file it found, is still running and its lock file is in place.
C4_Witness ==
    \E p, q \in Procs :
        /\ p # q
        /\ pc[p] = "lock_held"
        /\ Holding(q) /\ httpIssued[q]
        /\ lock.exists /\ lock.pid = q

\* C19: zero discovered entities is fatal.  A run whose enumeration returned
\* no club has issued no per-club stats request and written no artifact, and
\* does nothing but release the lock; it ends, and where it has ended there
\* is no timestamped artifact, latest.json is as it was and the lock file is
\* gone.  No other run ends that way.
C19_ZeroClubsIsFatal ==
    /\ [](outcome[1] = "no_clubs" =>
            /\ pc[1] \in {"release", "release_unlink", "aborted"}
            /\ httpIssued[1] /\ ~statsIssued[1] /\ ~wrote[1])
    /\ [](pc[1] = "aborted" =>
            /\ outcome[1] = "no_clubs"
            /\ stamped = {} /\ latest = 0
            /\ ~lock.exists)
    /\ (outcome[1] = "no_clubs" ~> pc[1] = "aborted")

\* C19's case: the run acquired the lock, its enumeration issued requests and
\* returned no club, and the run has ended with the lock file gone.
C19_Witness ==
    /\ pc[1] = "aborted" /\ outcome[1] = "no_clubs"
    /\ httpIssued[1] /\ ~statsIssued[1]
    /\ ~lock.exists /\ ~acquired[1] /\ stamped = {} /\ latest = 0

---------------------------------------------------------------------------
(* Properties of make_request_with_retry and its callers                   *)

Gets(ev) == Len(SelectSeq(ev, LAMBDA e : e = GET))
Sleeps(ev) == SelectSeq(ev, LAMBDA e : e # GET)

Returned == fphase \in {"returned", "validated"}
LastResp == resps[Len(resps)]
AllFailed == \A i \in 1..Len(resps) : resps[i].kind \in FailKinds

\* The i-th entry of the delay schedule, the last entry repeating.
ScheduleEntry(i) ==
    IF i <= Len(RETRY_DELAYS) THEN RETRY_DELAYS[i] ELSE RETRY_DELAYS[Len(RETRY_DELAYS)]

\* A GET, then for each further GET the sleep before it: n GETs in all.
Alternating(n) ==
    [j \in 1..(2 * n - 1) |-> IF j % 2 = 1 THEN GET ELSE ScheduleEntry(j \div 2)]

\* C5: retry schedule.  A fetch that has returned after a parsed response got
\* it at attempt k+1 <= retry_count after k failures of any kinds; it returns
\* that response's body, after exactly k+1 GETs and k sleeps, the sleeps being
\* the first k entries of the delay schedule in order, one before each retry;
\* and a fetch does not give up while attempts are left.
C5_RetrySchedule ==
    /\ (Returned /\ Len(resps) >= 1 /\ LastResp.kind = "ok") =>
          LET k == Len(resps) - 1 IN
          /\ k < retry_count
          /\ \A i \in 1..k : resps[i].kind \in FailKinds
          /\ result = LastResp.body
          /\ Gets(events) = k + 1
          /\ Sleeps(events) = [i \in 1..k |-> ScheduleEntry(i)]
          /\ events = Alternating(k + 1)
    /\ (Returned /\ AllFailed) => Len(resps) = retry_count

\* C5's case: with the default retry_count, two failures of different kinds
\* and then a parsed body: three GETs, sleeps of 100 ms and 200 ms.
C5_Witness ==
    /\ fphase = "returned"
    /\ retry_count = RETRY_ATTEMPTS
    /\ Len(resps) = 3
    /\ resps[1].kind = "http_error" /\ resps[2].kind = "bad_json"
    /\ resps[3].kind = "ok" /\ Truthy(result)
    /\ events = <<GET, 100, GET, 200, GET>>

\* C6: retry exhaustion.  A fetch (of at least one attempt) whose attempts
\* all failed returns None after exactly retry_count GETs and retry_count - 1
\* sleeps, one sleep before each retry and none after the last GET; never
\* more than retry_count GETs are issued, and none once the fetch returned.
C6_RetryExhaustion ==
    /\ []((Returned /\ retry_count >= 1 /\ AllFailed) =>
            /\ result = NoneValue
            /\ Len(resps) = retry_count
            /\ Gets(events) = retry_count
            /\ Len(Sleeps(events)) = retry_count - 1
            /\ events = Alternating(retry_count))
    /\ [](Gets(events) <= retry_count)
    /\ [][Returned => events' = events]_vars

\* C6's case: with the default retry_count, three failures of three kinds.
C6_Witness ==
    /\ fphase = "returned"
    /\ retry_count = RETRY_ATTEMPTS
    /\ Len(resps) = 3
    /\ resps[1].kind = "network" /\ resps[2].kind = "empty_body"
    /\ resps[3].kind = "http_error"
    /\ result = NoneValue
    /\ events = <<GET, 100, GET, 200, GET>>

\* C30: backoff schedule indexing.  For every retry_count, those beyond the
\* length of the schedule included, the i-th sleep of a fetch (the one before
\* retry number i) is the i-th entry of the schedule, or its last entry once
\* i exceeds its length; the sleeps of a fetch never decrease.
C30_BackoffIndexing ==
    LET sl == Sleeps(events) IN
    /\ \A i \in 1..Len(sl) :
          sl[i] = RETRY_DELAYS[IF i - 1 < Len(RETRY_DELAYS) - 1
                                 THEN i ELSE Len(RETRY_DELAYS)]
    /\ \A i \in 1..(Len(sl) - 1) : sl[i] <= sl[i + 1]
    /\ Len(sl) <= attempt

\* C30's case: a fetch with retry_count 5 has slept four times, the last
\* entry of the schedule twice.
C30_Witness ==
    /\ retry_count = Len(RETRY_DELAYS) + 2
    /\ Returned
    /\ Sleeps(events) = <<100, 200, 400, 400>>

\* A parsed body without the field the caller requires.
LacksField(c, r) ==
    r.kind = "ok" /\ ~r.body.none /\ RequiredField(c) \notin r.body.fields

\* C7, as claimed: when a parsed response lacks the required field, the
\* entity or page is treated as failed only after the request was retried up
\* to the attempt count.
C7_MissingFieldRetried ==
    (fphase = "validated" /\ verdict = "failed"
        /\ Len(resps) >= 1 /\ LacksField(caller, LastResp))
      => Gets(events) = retry_count

\* C7, amended: a parsed response that lacks the required field is returned
\* by make_request_with_retry as it is, right after its GET; no further GET
\* and no sleep follows it; the caller's check, which issues no request,
\* treats the entity or page as failed at once.
C7_MissingFieldNotRetried ==
    /\ []((Returned /\ Len(resps) >= 1 /\ LacksField(caller, LastResp)) =>
            /\ result = LastResp.body
            /\ \A i \in 1..(Len(resps) - 1) : resps[i].kind \in FailKinds
            /\ Gets(events) = Len(resps)
            /\ Len(Sleeps(events)) = Len(resps) - 1
            /\ events[Len(events)] = GET)
    /\ []((fphase = "validated" /\ Len(resps) >= 1 /\ LacksField(caller, LastResp))
            => verdict = "failed")
    /\ [][(Len(resps) >= 1 /\ LastResp.kind = "ok")
            => (events' = events /\ resps' = resps)]_vars

\* C7's case: the first response to fetch_club_stats is a non-empty dict
\* without voucherCount: the club is failed after one GET of three.
C7_Witness ==
    /\ fphase = "validated" /\ verdict = "failed"
    /\ caller = "stats" /\ retry_count = RETRY_ATTEMPTS
    /\ resps = <<[kind |-> "ok", body |-> Dict({"results", "totalCount"})]>>
    /\ events = <<GET>>

---------------------------------------------------------------------------
(* Properties of the enumeration                                           *)

\* The identities known to the run, those of the walk in progress included.
KnownClubs == all_clubs \cup clubs_set

\* C8: cursor loop guard.  A walk never goes on to a further page request
\* with the cursor the preceding page had returned: every page request after
\* the first uses a cursor that differs from the one before.  When a page
\* returns the same cursor again the walk ends there, keeping the identities
\* collected so far, and what it returns is merged into all_clubs.
C8_CursorLoopGuard ==
    /\ [][(epc = "page" /\ epc' = "page") =>
            (cursor' # NoCursor /\ cursor' # cursor /\ cursor' # last_cursor)]_vars
    /\ [][(epc = "page" /\ epc' = "merge" /\ walk_end' = "stuck") =>
            /\ cursor' # NoCursor /\ cursor' = last_cursor
            /\ clubs_set \subseteq clubs_set']_vars
    /\ [][epc = "merge" => all_clubs' = all_clubs \cup clubs_set]_vars

\* C8's case: the second page of a walk returned the cursor of the first; the
\* walk has ended and returns both clubs.
C8_Witness ==
    /\ epc = "merge" /\ walk_end = "stuck"
    /\ cursor = "c1" /\ last_cursor = "c1"
    /\ Cardinality(clubs_set) = 2

\* C35: every walk terminates.  A walk that is requesting pages gets to its
\* return, whatever well-formed pages and cursors the endpoint answers with.
C35_WalkTerminates == (epc = "page") ~> (epc = "merge")

\* The (publicId, name) pairs of the items fetched that carry both fields.
FetchedPairs ==
    {<<c.publicId, c.name>> :
        c \in {x \in fetched : "publicId" \in DOMAIN x /\ "name" \in DOMAIN x}}

\* C36: the enumeration neither loses nor invents identities.  What the
\* walks hold (the global set and the running walk's set) is at every moment
\* the set of pairs of the whole items on the non-empty pages fetched so far,
\* and the enumerator returns just that; a pair once merged is never
\* removed; and a page that holds an item lacking a key does not end the
\* walk as a failed or an empty page would.
C36_NeitherLosesNorInvents ==
    /\ [](KnownClubs = FetchedPairs)
    /\ [](epc = "done" => all_clubs = FetchedPairs)
    /\ [][all_clubs \subseteq all_clubs']_vars
    /\ [][fetched' # fetched => walk_end' \notin {"failed", "empty"}]_vars

\* C36's case: pages held both items lacking a key, the walk went on past
\* them, and the enumerator has returned the one whole item.
C36_Witness ==
    /\ epc = "done"
    /\ fetched = PartialItems
    /\ cursor # NoCursor
    /\ all_clubs = {<<1, "n">>}

\* C38: throttling-safe request stream, in the enumeration.  A step that
\* issues a GET (a page request of a walk, the totalCount probe) is never
\* taken when the last thing the enumeration did was a GET: a sleep lies
\* between, also from one walk to the next and from a walk to the probe.
C38_SleepBetweenGets ==
    [][(epc \in {"page", "probe"}) => (last_event \in {"none", "sleep"})]_vars

\* C9, as claimed: no listing page is requested by a walk once a response of
\* the run has reported the total and the global set, the current walk's
\* pages included, has reached it.
C9_HaltsWhenGlobalTotalReached ==
    (epc = "page" /\ api_total # NoTotal
        /\ (expected_total # NoTotal \/ total_count # NoTotal))
      => Cardinality(KnownClubs) < api_total

\* C9, amended: a walk requests a further page only while its own set is
\* below the total its responses reported, and a walk is started (and runs)
\* only while the global set merged so far is below the total the probe
\* request returned.  The global set is not looked at inside a walk.
C9_HaltsWhenWalkTotalReached ==
    /\ epc = "page" =>
          (total_count = NoTotal \/ Cardinality(clubs_set) < total_count)
    /\ epc \in {"start", "page"} =>
          (expected_total = NoTotal \/ Cardinality(all_clubs) < expected_total)
    /\ total_count \in {NoTotal, api_total}
    /\ expected_total \in {NoTotal, api_total}

\* C9's case: the second walk goes on to a further page although the global
\* set together with its own page has reached the known total.
C9_Witness ==
    /\ epc = "page" /\ walk = 2 /\ cursor # NoCursor
    /\ expected_total = api_total
    /\ Cardinality(KnownClubs) = api_total
    /\ Cardinality(clubs_set) < total_count

\* C10, as claimed: once the global set has reached the total the endpoint
\* reports, no further walk is started, also when a request issued after the
\* walk failed.
C10_Tier1EarlyStop ==
    (epc = "start" /\ walk > 1 /\ api_total # NoTotal)
      => Cardinality(all_clubs) < api_total

\* C10, amended: a further walk is started only while the total is unknown to
\* the enumerator (no probe request has succeeded yet) or the global set is
\* below it; once a walk or its probe leaves the global set at the known
\* total the enumerator returns at once; and it returns before the last walk
\* only for that reason.
C10_EarlyStopWhenTotalKnown ==
    /\ []((epc = "start" /\ walk > 1) =>
            (expected_total = NoTotal \/ Cardinality(all_clubs) < expected_total))
    /\ [][(epc \in {"merge", "probe"} /\ epc' # "probe"
             /\ expected_total' # NoTotal
             /\ Cardinality(all_clubs') >= expected_total')
            => (epc' = "done" /\ walk' = walk)]_vars
    /\ []((epc = "done" /\ walk < NumWalks) =>
            (expected_total = api_total /\ api_total # NoTotal
               /\ Cardinality(all_clubs) >= expected_total))

\* C10's case: the default ordering served every club over two pages, the
\* probe returned the total, and the enumerator returned after that one walk.
C10_Witness ==
    /\ epc = "done" /\ walk = 1
    /\ cursor # NoCursor /\ walk_end = "total"
    /\ api_total = MaxId /\ expected_total = api_total
    /\ Cardinality(all_clubs) = MaxId

C13_WalkFailureIsolation ==
    /\ [][(epc = "page" /\ walk_end' = "failed") =>
            (epc' = "merge" /\ clubs_set' = clubs_set /\ all_clubs' = all_clubs
               /\ walk' = walk)]_vars
    /\ [][(epc = "merge" /\ walk_end = "failed") =>
            /\ all_clubs' = all_clubs \cup clubs_set
            /\ epc' \in {"probe", "start", "done"}]_vars
    /\ [][(epc \in {"merge", "probe"} /\ walk_end = "failed" /\ epc' # "probe"
             /\ walk < NumWalks
             /\ ~TotalReached(Cardinality(all_clubs'), expected_total'))
            => (epc' = "start" /\ walk' = walk + 1)]_vars
    /\ []((epc = "done" /\ walk < NumWalks) =>
            TotalReached(Cardinality(all_clubs), expected_total))

\* C13's case: the first walk got a club from its first page, its second
\* page fetch failed, the club was merged and the second walk is started.
C13_Witness ==
    /\ epc = "start" /\ walk = 2
    /\ walk_end = "failed" /\ cursor # NoCursor
    /\ clubs_set # {} /\ clubs_set \subseteq all_clubs

\* The identities a deterministic endpoint serves over all walks.
MockClubs == {<<i, "n">> : i \in mock.s1 \cup mock.s2}

\* C12: enumeration is order-independent.  Against a deterministic endpoint
\* whose requests all succeed and whose totalCount is the number of clubs,
\* the set the enumerator returns is the union of what the endpoint serves
\* to the walks, whichever walks of tier 1 and of tier 2 the served sets are
\* attached to: it does not depend on the order of the walks.
C12_OrderIndependent == (mock.on /\ epc = "done") => all_clubs = MockClubs

\* C12's case: the third ordering served all clubs over several pages and
\* the enumerator returned after it; the fifth ordering, which serves clubs
\* as well, was never walked.
C12_Witness ==
    /\ mock.on /\ epc = "done" /\ walk = 3
    /\ mock.w1 = 3 /\ mock.s1 = Ids /\ mock.w2 = 5 /\ mock.s2 # {}
    /\ all_clubs = MockClubs /\ cursor # NoCursor

\* C14: deduplication by id.  Neither the set a walk collects nor the global
\* set ever holds two entries with the same publicId, also when responses
\* list the same publicId under different names.
C14_DedupById ==
    \A a \in KnownClubs : \A b \in KnownClubs : a[1] = b[1] => a = b

---------------------------------------------------------------------------
(* Properties of the collection, the aggregation and the snapshot          *)

\* The fetch of the i-th club returned a payload that contains voucherCount.
Succeeded(i) == ~payloads[i].none /\ "voucherCount" \in payloads[i].fields

\* The records due for the first n clubs: one for each club whose payload
\* contains voucherCount, with that value, in the order of the list.
RECURSIVE RecordsOf(_)
RecordsOf(n) ==
    IF n = 0 THEN <<>>
    ELSE IF Succeeded(n)
      THEN Append(RecordsOf(n - 1),
                  [publicId |-> clubs[n], voucherCount |-> payloads[n].voucherCount])
      ELSE RecordsOf(n - 1)

\* The publicId and voucherCount of each record of a list.
Core(s) ==
    [i \in 1..Len(s) |-> [publicId |-> s[i].publicId, voucherCount |-> s[i].voucherCount]]

\* The snapshots the run has written.
PublishedFiles == {f \in {stamped_file, latest_file} : f.written}

\* C15: failed entities are excluded, never zero-filled.  At every moment the
\* collector's records are exactly those of the clubs fetched so far whose
\* payload contained voucherCount, each with the fetched value; a club whose
\* fetch returned None or a payload without voucherCount has no record; and
\* every snapshot written holds exactly the records of those clubs.
C15_FailedExcluded ==
    /\ Core(all_stats) = RecordsOf(Len(payloads))
    /\ \A i \in 1..Len(all_stats) : all_stats[i].publicId \in Ids
    /\ \A f \in PublishedFiles :
          Len(payloads) = Len(clubs) /\ Core(f.clubs) = RecordsOf(Len(clubs))

\* C15's case: of three clubs the first fetch failed after its retries, the
\* second payload lacks voucherCount and the third has voucherCount 0: the
\* published snapshot holds the third club only, with the fetched 0.
C15_Witness ==
    /\ cpc = "saved" /\ Len(clubs) = 3
    /\ payloads[1].none
    /\ ~payloads[2].none /\ "voucherCount" \notin payloads[2].fields
    /\ Succeeded(3) /\ payloads[3].voucherCount = 0
    /\ Len(latest_file.clubs) = 1 /\ latest_file.clubs[1].voucherCount = 0

\* The fetches among the collector's events.
Fetches == SelectSeq(cevents, LAMBDA e : e[1] = "fetch")

\* The clubs among the first n whose fetch succeeded (want) or failed (~want).
RECURSIVE Picked(_, _)
Picked(n, want) ==
    IF n = 0 THEN <<>>
    ELSE IF Succeeded(n) = want THEN Append(Picked(n - 1, want), clubs[n])
    ELSE Picked(n - 1, want)

\* C16: collector order and batch isolation.  The fetches issued are those of
\* the first idx - 1 clubs of the input, one each, in input order; the loop
\* advances by one club whether the fetch failed or not, and returns only
\* after the last club; every club fetched is either in the output or in
\* the failed list, never both; and the output is the subsequence of the
\* input formed by the succeeded clubs.
C16_OrderAndIsolation ==
    /\ [](Len(payloads) = idx - 1)
    /\ [](Fetches = [i \in 1..(idx - 1) |-> FetchOf(clubs[i])])
    /\ [][idx' # idx => (cpc = "loop" /\ idx' = idx + 1)]_vars
    /\ [](cpc \in {"collected", "calculated", "stamped", "saved", "raised"}
            => idx = Len(clubs) + 1)
    /\ [](Len(all_stats) + Len(failed_clubs) = idx - 1)
    /\ []([i \in 1..Len(all_stats) |-> all_stats[i].publicId] = Picked(idx - 1, TRUE))
    /\ [](failed_clubs = Picked(idx - 1, FALSE))

\* C16's case: the list <<2, 1, 2>>, the first and the second fetch failed
\* and the third succeeded.
C16_Witness ==
    /\ cpc = "collected" /\ clubs = <<2, 1, 2>>
    /\ ~Succeeded(1) /\ ~Succeeded(2) /\ Succeeded(3)
    /\ failed_clubs = <<2, 1>>
    /\ Len(all_stats) = 1 /\ all_stats[1].publicId = 2

\* C17: collector rate limit.  After each club but the last exactly one
\* rate-limit sleep follows its fetch, whether the fetch succeeded or failed,
\* and none follows the last: n fetches and n - 1 sleeps for n clubs.
C17_RateLimit ==
    LET n == Len(clubs)
        k == idx - 1
        len == IF k = n /\ n >= 1 THEN 2 * n - 1 ELSE 2 * k
    IN  cevents = [j \in 1..len |->
                     IF j % 2 = 1 THEN FetchOf(clubs[(j + 1) \div 2]) ELSE Sleep]

\* C17's case: three clubs, the second failed: fetch, sleep, fetch, sleep, fetch.
C17_Witness ==
    /\ cpc = "collected" /\ Len(clubs) = 3
    /\ Succeeded(1) /\ ~Succeeded(2) /\ Succeeded(3)
    /\ Len(cevents) = 5
    /\ cevents[2] = Sleep /\ cevents[4] = Sleep /\ cevents[5] = FetchOf(clubs[3])

\* C18: zero successful metrics is fatal.  When the list of clubs is not
\* empty and the collection returned no record, the run goes no further: no
\* timestamped artifact is written and latest.json is not written.
C18_ZeroStatsIsFatal ==
    (clubs # <<>> /\ idx = Len(clubs) + 1 /\ all_stats = <<>>)
      => (~stamped_file.written /\ ~latest_file.written)

\* The sum of voucherCount over the first n records of a list.
RECURSIVE SumTo(_, _)
SumTo(s, n) == IF n = 0 THEN 0 ELSE SumTo(s, n - 1) + s[n].voucherCount

\* C20: in every snapshot written, metadata.totalVouchers is the sum of
\* voucherCount over the club records of that snapshot.
C20_TotalVouchers ==
    /\ metadata.computed => metadata.totalVouchers = SumTo(all_stats, Len(all_stats))
    /\ \A f \in PublishedFiles :
          f.metadata.totalVouchers = SumTo(f.clubs, Len(f.clubs))

\* C20's case: a snapshot of three clubs with counts 100, 1 and 0.
C20_Witness ==
    /\ cpc = "saved" /\ Len(latest_file.clubs) = 3
    /\ latest_file.clubs[1].voucherCount = 100
    /\ latest_file.clubs[2].voucherCount = 1
    /\ latest_file.clubs[3].voucherCount = 0
    /\ latest_file.metadata.totalVouchers = 101
    /\ stamped_file = latest_file

\* C21: in every snapshot written, each club record's estimatedPayout is its
\* voucherCount times the snapshot's metadata.voucherWorth (a whole number of
\* hundredths, which is its own rounding to two decimals); and with the
\* counts 100 and 0 the snapshot has totalVouchers 100, voucherWorth
\* 30000.00 and the payouts 3000000.00 and 0.00.
C21_PayoutIsCountTimesWorth ==
    \A f \in PublishedFiles :
        /\ \A i \in 1..Len(f.clubs) :
              f.clubs[i].estimatedPayout
                  = f.clubs[i].voucherCount * f.metadata.voucherWorth
        /\ [i \in 1..Len(f.clubs) |-> f.clubs[i].voucherCount] = <<100, 0>> =>
              /\ f.metadata.totalVouchers = 100
              /\ f.metadata.voucherWorth = 3000000
              /\ f.clubs[1].estimatedPayout = 300000000
              /\ f.clubs[2].estimatedPayout = 0

\* C21's case: the snapshot of two clubs with the counts 100 and 0 is written.
C21_Witness ==
    /\ cpc = "saved" /\ Len(latest_file.clubs) = 2
    /\ latest_file.clubs[1].voucherCount = 100
    /\ latest_file.clubs[2].voucherCount = 0
    /\ latest_file.clubs[1].estimatedPayout = TOTAL_PRIZE_POOL
    /\ latest_file.metadata.voucherWorth = 3000000

\* C22: in every snapshot written with totalVouchers > 0, voucherWorth is the
\* exact quotient of the prize pool by totalVouchers: multiplied by
\* totalVouchers it gives the pool back.
C22_WorthIsExactQuotient ==
    \A f \in PublishedFiles :
        f.metadata.totalVouchers > 0 =>
            f.metadata.voucherWorth * f.metadata.totalVouchers = TOTAL_PRIZE_POOL

\* C23: zero-voucher guard.  calculate_payouts always returns (no division
\* by zero); when the counts of the records sum to 0, the empty list
\* included, voucherWorth is 0 and every estimatedPayout is 0.
C23_ZeroVoucherGuard ==
    /\ [][cpc = "collected" =>
            (cpc' = "calculated" /\ metadata'.computed
               /\ Len(all_stats') = Len(all_stats))]_vars
    /\ []((metadata.computed /\ SumTo(all_stats, Len(all_stats)) = 0) =>
            /\ metadata.totalVouchers = 0
            /\ metadata.voucherWorth = 0
            /\ \A i \in 1..Len(all_stats) : all_stats[i].estimatedPayout = 0)

\* C23's case: two clubs were collected, both with voucherCount 0.
C23_Witness ==
    /\ cpc = "calculated" /\ Len(all_stats) = 2
    /\ all_stats[1].voucherCount = 0 /\ all_stats[2].voucherCount = 0
    /\ metadata.voucherWorth = 0 /\ all_stats[1].estimatedPayout = 0

---------------------------------------------------------------------------
(* Properties of the payout expression                                     *)

\* The exact product of the count and the worth, in hundredths, is
\* pay_count.num * pay_worth / pay_count.den.
ExactNum == pay_count.num * pay_worth

\* The exact product lies halfway between two hundredths.
Halfway == 2 * (ExactNum % pay_count.den) = pay_count.den

\* C24: whenever the exact product of voucherCount and voucherWorth lies
\* halfway between two cent values, estimatedPayout is the upper one.
C24_HalfRoundsUp ==
    (ppc = "returned" /\ Halfway) =>
        estimated_payout = (ExactNum \div pay_count.den) + 1

\* C26: snapshots are immutable and uniquely named.  In a sequence of runs
\* (no two of them hold the lock at once) no step removes or changes a
\* timestamped artifact that exists, whatever the spacing of the runs'
\* publish times.
C26_ArtifactsImmutable ==
    [][(\A p, q \in Procs : (Holding(p) /\ Holding(q)) => p = q) =>
          \A f \in stamped : f \in stamped']_vars

\* C29: release() is idempotent and conditional, for one caller.  Once
\* release() has returned, calling it again changes neither the lock file
\* nor the object; on an object that has not acquired, no step of release()
\* changes the lock file; and release() never raises, also when the object
\* has acquired and the file is gone.
C29_ReleaseIdempotent ==
    /\ [][released >= 1 => (lock' = lock /\ acquired' = acquired)]_vars
    /\ [][~acquired[1] => lock' = lock]_vars
    /\ [](pc[1] # "failed")
    /\ [](pc[1] = "done" => ~(acquired[1] /\ lock.exists))

\* C29's case: release() was called a second time and has returned, the
\* lock file removed.
C29_Witness ==
    /\ released >= 1 /\ pc[1] = "done"
    /\ ~acquired[1] /\ ~lock.exists

\* C32: release() never removes a lock file created by a different
\* process.  While q is running and the lock file is the one q wrote, no step
\* of another process's release changes the lock file.
C32_ReleaseSparesOthers ==
    [][\A p, q \in Procs :
          (p # q /\ Moves(p) /\ pc[p] \in {"release", "release_unlink"}
             /\ Holding(q) /\ lock.exists /\ lock.pid = q)
          => lock' = lock]_vars

\* C33: a run in progress is never preempted.  While p is between its
\* acquire and its release and the lock file is the one p wrote, an acquire
\* of another process that looks at the file's age ends with the lock-held
\* error, however long p's run has lasted.
C33_NeverPreempted ==
    [][\A p, q \in Procs :
          (p # q /\ Holding(p) /\ lock.exists /\ lock.pid = p
             /\ pc[q] = "stat" /\ Moves(q))
          => pc'[q] = "lock_held"]_vars

\* C34: acquire() has exactly two outcomes under concurrency.  Every step
\* of an acquire leads to its next step, to the successful end or to the
\* lock-held error, never to another error.
C34_AcquireTwoOutcomes ==
    [][\A p \in Procs :
          (Moves(p) /\ pc[p] \in {"init", "stat", "unlink", "write"})
          => pc'[p] \in {"stat", "unlink", "write", "enumerating", "lock_held"}]_vars

\* main is before save_data: in acquire or in steps 1 to 3.
PrePublishPcs ==
    {"init", "stat", "unlink", "write", "enumerating", "collecting", "aggregating"}

\* C27: no partial snapshot before PUBLISHING.  A step of a run that is
\* before save_data, or in release, changes neither latest.json nor any
\* timestamped artifact and creates none; a run that is before save_data has
\* written nothing; and a run that has written no timestamped artifact,
\* wherever it ended, is the content of no artifact.
C27_NothingBeforePublishing ==
    /\ [][\A p \in Procs :
            (Moves(p) /\ pc[p] \in PrePublishPcs \cup {"release", "release_unlink"})
                => (stamped' = stamped /\ latest' = latest)]_vars
    /\ [](\A p \in Procs : pc[p] \in PrePublishPcs => ~wrote[p])
    /\ [](\A p \in Procs :
            ~wrote[p] => (latest # p /\ \A f \in stamped : f.content # p))

\* C27's case: run 1 failed in the collection while the artifacts of run 2
\* were there.
C27_Witness ==
    /\ pc[1] = "failed" /\ statsIssued[1] /\ ~wrote[1]
    /\ latest = 2
    /\ \E f \in stamped : f.content = 2

\* The state main is in just before it enters the given one.
Before(state) ==
    CASE state = "enumerating" -> "write"
      [] state = "collecting" -> "enumerating"
      [] state = "aggregating" -> "collecting"
      [] state = "publishing" -> "aggregating"
      [] state = "publish_latest" -> "publishing"
      [] OTHER -> "release"

\* C28: run state order, for one process.  The run enters enumerating,
\* collecting, aggregating, publishing and the write of latest.json each only
\* from the one before it (enumerating from the end of acquire) and ends as
\* done only through all of them; no stats request is issued before the
\* enumeration has returned and no artifact is written before the
\* aggregation has; and from the end of acquire through save_data the lock
\* file written by the run exists.
C28_RunStateOrder ==
    /\ [][(Moves(1) /\ pc'[1] \in HoldingPcs \ {"release", "release_unlink"})
            => pc[1] = Before(pc'[1])]_vars
    /\ [][(Moves(1) /\ pc'[1] = "done")
            => (pc[1] \in {"release", "release_unlink"} /\ outcome[1] = "done")]_vars
    /\ [][outcome'[1] = "done" => (outcome[1] = "done" \/ pc[1] = "publish_latest")]_vars
    /\ [](statsIssued[1] => pc[1] \notin {"init", "stat", "unlink", "write", "enumerating"})
    /\ [](wrote[1] => pc[1] \notin PrePublishPcs \cup {"publishing"})
    /\ [](pc[1] \in HoldingPcs \ {"release", "release_unlink"}
            => (lock.exists /\ lock.pid = 1 /\ acquired[1]))

\* C28's case: the run has gone through every state and is done.
C28_Witness ==
    /\ pc[1] = "done" /\ outcome[1] = "done"
    /\ httpIssued[1] /\ statsIssued[1] /\ wrote[1]
    /\ latest = 1 /\ ~lock.exists

---------------------------------------------------------------------------
(* Properties of save_data                                                  *)

---------------------------------------------------------------------------
(* Properties of the collection against any stats endpoint                 *)

\* C31: whatever the stats endpoint returned for voucherCount, every club
\* record of every snapshot written has a voucherCount that is a
\* non-negative integer.
C31_CountsNonNegative ==
    \A f \in PublishedFiles :
        \A i \in 1..Len(f.clubs) :
            f.clubs[i].voucherCount # NoneCount /\ f.clubs[i].voucherCount >= 0

\* The sum of estimatedPayout over the first n records.
RECURSIVE SumPayouts(_, _)
SumPayouts(recs, n) ==
    IF n = 0 THEN 0 ELSE recs[n].estimatedPayout + SumPayouts(recs, n - 1)

\* C37: in every snapshot written whose voucher counts are non-negative
\* integers, the estimatedPayout of all club records sum to no more than
\* the total prize pool.
C37_PayoutsWithinPool ==
    \A f \in PublishedFiles :
        (\A i \in 1..Len(f.clubs) :
            f.clubs[i].voucherCount # NoneCount /\ f.clubs[i].voucherCount >= 0)
        => SumPayouts(f.clubs, Len(f.clubs)) <= TOTAL_PRIZE_POOL

===========================================================================
